---- MODULE Spec2Model ----
(***************************************************************************)
(* Slice-list planning of Savu's Hdf5TransportData: the single slice list, *)
(* its grouping into transfer batches, the distribution of the batches     *)
(* over the processes of a run and the schedule-time padding.              *)
(*                                                                         *)
(* Python indices are 0-based: a dimension d of an index tuple t is t[d+1] *)
(* here, entry i of a list l is l[i+1].  A slice object is a record; the   *)
(* field full marks slice(None).  A raised exception is the field err of   *)
(* the value an operator returns ("none" when nothing was raised).         *)
(***************************************************************************)
EXTENDS Integers, Sequences, FiniteSets, TLC

VARIABLES
    cfg,    \* the configuration every process of the run reads
    res,    \* res[p]: what process p has computed so far
    fetch   \* the last call of _get_padded_data and what it read with

vars == <<cfg, res, fetch>>

----------------------------------------------------------------------------
(* Bounds of the inputs.                                                   *)

MaxLen == 3       \* largest number of iterated points of a dimension
MaxStart == 1     \* largest preview start
MaxStep == 2      \* largest preview step
MaxFrames == 3    \* largest max_frames_transfer / max_frames_process
MaxProcs == 3     \* largest number of processes of a run
MaxChunk == 3     \* largest chunk of a preview window
MaxSpan == 2      \* largest stop - start of a window with chunks
MaxPixel == 2     \* largest corrected pixel value and largest crop level
MaxPixels == 3    \* number of pixels of a corrected frame
MaxAxes == 4      \* largest rank of a multi-modal dataset

----------------------------------------------------------------------------
(* numpy and list helpers.                                                 *)

RECURSIVE prod(_)
prod(s) == IF s = <<>> THEN 1 ELSE Head(s) * prod(Tail(s))

arange(start, stop, step) ==
    LET n == IF stop <= start THEN 0 ELSE (stop - start + step - 1) \div step
    IN  [i \in 1..n |-> start + (i - 1) * step]

Elems(s) == {s[i] : i \in 1..Len(s)}

IndexOf(s, x) == CHOOSE i \in 1..Len(s) : s[i] = x

Min(a, b) == IF a < b THEN a ELSE b

RECURSIVE Flatten(_)
Flatten(ss) == IF ss = <<>> THEN <<>> ELSE Head(ss) \o Flatten(Tail(ss))

slice(a, b, c) == [start |-> a, stop |-> b, step |-> c, full |-> FALSE]

sliceNone == [start |-> 0, stop |-> 0, step |-> 0, full |-> TRUE]

\* slice(a, b): the step is None, held as 0
slice2(a, b) == [start |-> a, stop |-> b, step |-> 0, full |-> FALSE]

\* the positions that indexing an extent of length n with the slice sl
\* selects (slice.indices): a negative bound counts from the end, a bound
\* beyond the extent is clipped, a step of None is 1
selected(sl, n) ==
    LET bound(x) == IF x < 0 THEN (IF n + x < 0 THEN 0 ELSE n + x)
                    ELSE (IF x > n THEN n ELSE x)
    IN  IF sl.full THEN arange(0, n, 1)
        ELSE arange(bound(sl.start), bound(sl.stop), IF sl.step = 0 THEN 1 ELSE sl.step)

\* the value None of a parameter that otherwise holds dimensions
None == <<-1>>

\* the two exceptions raised while the index grid is built
NegativeValue == "Exception: Cannot have a negative value in the slice list."

MultipleChunks == "Exception: The core dimension does not support multiple chunks."

----------------------------------------------------------------------------
(* Hdf5TransportData: the index grid.                                      *)

get_shape_of_slice_dirs(slice_dirs, shape) ==
    [i \in 1..Len(slice_dirs) |-> shape[slice_dirs[i] + 1]]

\* chunk and repeat exchanged: the last listed slice dimension varies fastest
chunk_length_repeat_swapped(slice_dirs, shape) ==
    LET sshape == get_shape_of_slice_dirs(slice_dirs, shape)
        m == Len(slice_dirs)
    IN  IF slice_dirs = <<>>
        THEN [chunk |-> <<1>>, length |-> <<1>>, repeat |-> <<1>>]
        ELSE [chunk  |-> [dim \in 1..m |-> prod(SubSeq(sshape, dim + 1, m))],
              length |-> sshape,
              repeat |-> [dim \in 1..m |-> prod(SubSeq(sshape, 1, dim - 1))]]

chunk_length_repeat(slice_dirs, shape) ==
    LET sshape == get_shape_of_slice_dirs(slice_dirs, shape)
        m == Len(slice_dirs)
    IN  IF slice_dirs = <<>>
        THEN [chunk |-> <<1>>, length |-> <<1>>, repeat |-> <<1>>]
        ELSE [chunk  |-> [dim \in 1..m |-> prod(SubSeq(sshape, 1, dim - 1))],
              length |-> sshape,
              repeat |-> [dim \in 1..m |-> prod(SubSeq(sshape, dim + 1, m))]]

\* the matrix returned without the test for a negative value
get_slice_dir_matrix_unchecked(c, dim) ==
    LET chunk == c.chunks[dim + 1]
        a == arange(c.starts[dim + 1], c.stops[dim + 1], c.steps[dim + 1])
        flat == [k \in 1..(Len(a) * chunk) |->
                   a[((k - 1) \div chunk) + 1] + ((k - 1) % chunk)
                     - (chunk \div 2)]
    IN  [err |-> "none", vals |-> flat]

\* np.ravel(np.transpose(dim_idx)): point i of the range, then offset j
get_slice_dir_matrix(c, dim) ==
    LET chunk == c.chunks[dim + 1]
        a == arange(c.starts[dim + 1], c.stops[dim + 1], c.steps[dim + 1])
        flat == [k \in 1..(Len(a) * chunk) |->
                   a[((k - 1) \div chunk) + 1] + ((k - 1) % chunk)
                     - (chunk \div 2)]
    IN  IF \E k \in 1..Len(flat) : flat[k] < 0
        THEN [err |-> NegativeValue, vals |-> <<>>]
        ELSE [err |-> "none", vals |-> flat]

get_slice_dir_index(c, dim) ==
    IF c.chunks[dim + 1] > 1
    THEN get_slice_dir_matrix(c, dim)
    ELSE IF dim \in Elems(c.fix_dirs)
         THEN [err |-> "none",
               vals |-> <<c.fix_vals[IndexOf(c.fix_dirs, dim)]>>]
         ELSE [err |-> "none",
               vals |-> arange(c.starts[dim + 1], c.stops[dim + 1],
                               c.steps[dim + 1])]

\* np.ravel(np.kron(values, np.ones((r, c)))): every value c times, the
\* whole row r times
kron_ravel(values, r, ch) ==
    LET n == Len(values)
    IN  [k \in 1..(r * n * ch) |-> values[(((k - 1) % (n * ch)) \div ch) + 1]]

\* values[i] is what the string `value` evaluates to for slice dimension i
get_slice_dirs_index(slice_dirs, shape, values) ==
    LET clr == chunk_length_repeat(slice_dirs, shape)
        m == Len(slice_dirs)
    IN  IF \E i \in 1..m : values[i].err # "none"
        THEN [err |-> values[CHOOSE i \in 1..m :
                               /\ values[i].err # "none"
                               /\ \A j \in 1..(i - 1) : values[j].err = "none"].err,
              index |-> <<>>]
        ELSE [err |-> "none",
              index |-> [i \in 1..m |->
                          kron_ravel(values[i].vals, clr.repeat[i],
                                     clr.chunk[i])]]

\* the stop taken as start + int(chunk/2)
get_core_slices_half_stop(c, core_dirs) ==
    LET half(d) == c.chunks[d + 1] \div 2
        raised(d) ==
            IF c.chunks[d + 1] > 1
            THEN IF c.stops[d + 1] - c.starts[d + 1] = 1
                 THEN IF c.starts[d + 1] - half(d) < 0 THEN NegativeValue ELSE "none"
                 ELSE MultipleChunks
            ELSE "none"
        one(d) == IF c.chunks[d + 1] > 1
                  THEN slice(c.starts[d + 1] - half(d),
                             c.starts[d + 1] + half(d), 1)
                  ELSE slice(c.starts[d + 1], c.stops[d + 1], c.steps[d + 1])
        bad == {i \in 1..Len(core_dirs) : raised(core_dirs[i]) # "none"}
    IN  IF bad # {}
        THEN [err |-> raised(core_dirs[CHOOSE i \in bad : \A j \in bad : i <= j]),
              core_slice |-> <<>>]
        ELSE [err |-> "none",
              core_slice |-> [i \in 1..Len(core_dirs) |-> one(core_dirs[i])]]

\* the window centred on the start whatever the span
get_core_slices_any_span(c, core_dirs) ==
    LET half(d) == c.chunks[d + 1] \div 2
        raised(d) ==
            IF c.chunks[d + 1] > 1
            THEN IF TRUE
                 THEN IF c.starts[d + 1] - half(d) < 0 THEN NegativeValue ELSE "none"
                 ELSE MultipleChunks
            ELSE "none"
        one(d) == IF c.chunks[d + 1] > 1
                  THEN slice(c.starts[d + 1] - half(d),
                             c.starts[d + 1] + (c.chunks[d + 1] - half(d)), 1)
                  ELSE slice(c.starts[d + 1], c.stops[d + 1], c.steps[d + 1])
        bad == {i \in 1..Len(core_dirs) : raised(core_dirs[i]) # "none"}
    IN  IF bad # {}
        THEN [err |-> raised(core_dirs[CHOOSE i \in bad : \A j \in bad : i <= j]),
              core_slice |-> <<>>]
        ELSE [err |-> "none",
              core_slice |-> [i \in 1..Len(core_dirs) |-> one(core_dirs[i])]]

\* the core dimensions in their order: the first that fails raises
get_core_slices(c, core_dirs) ==
    LET half(d) == c.chunks[d + 1] \div 2
        raised(d) ==
            IF c.chunks[d + 1] > 1
            THEN IF c.stops[d + 1] - c.starts[d + 1] = 1
                 THEN IF c.starts[d + 1] - half(d) < 0 THEN NegativeValue ELSE "none"
                 ELSE MultipleChunks
            ELSE "none"
        one(d) == IF c.chunks[d + 1] > 1
                  THEN slice(c.starts[d + 1] - half(d),
                             c.starts[d + 1] + (c.chunks[d + 1] - half(d)), 1)
                  ELSE slice(c.starts[d + 1], c.stops[d + 1], c.steps[d + 1])
        bad == {i \in 1..Len(core_dirs) : raised(core_dirs[i]) # "none"}
    IN  IF bad # {}
        THEN [err |-> raised(core_dirs[CHOOSE i \in bad : \A j \in bad : i <= j]),
              core_slice |-> <<>>]
        ELSE [err |-> "none",
              core_slice |-> [i \in 1..Len(core_dirs) |-> one(core_dirs[i])]]

\* the last assignment to a dimension wins: slice, then fixed, then core
single_slice_list(nSlices, nDims, core_slice, core_dirs, slice_dirs, fix_dirs, value, index) ==
    [i \in 1..nSlices |->
        [d1 \in 1..nDims |->
            LET d == d1 - 1
            IN  IF d \in Elems(slice_dirs)
                THEN LET v == index[IndexOf(slice_dirs, d)][i]
                     IN  slice(v, v + 1, 1)
                ELSE IF d \in Elems(fix_dirs)
                THEN LET v == value[IndexOf(fix_dirs, d)]
                     IN  slice(v, v + 1, 1)
                ELSE IF d \in Elems(core_dirs)
                THEN core_slice[IndexOf(core_dirs, d)]
                ELSE sliceNone]]

----------------------------------------------------------------------------
(* Hdf5TransportData: grouping, distribution, padding.                     *)

\* the stop taken from the start of the last frame
group_dimension_last_start(sl, dim, step) ==
    LET start == sl[1][dim + 1].start
        stop == sl[Len(sl)][dim + 1].start
    IN  [sl[1] EXCEPT ![dim + 1] = slice(start, stop, step)]

group_dimension(sl, dim, step) ==
    LET start == sl[1][dim + 1].start
        stop == sl[Len(sl)][dim + 1].stop
    IN  [sl[1] EXCEPT ![dim + 1] = slice(start, stop, step)]

\* only the full chunks: range(0, len(the_list) - size + 1, size)
split_list_whole(the_list, size) ==
    LET n == Len(the_list) \div size
    IN  [x \in 1..n |->
           SubSeq(the_list, (x - 1) * size + 1, Min(x * size, Len(the_list)))]

split_list(the_list, size) ==
    LET n == (Len(the_list) + size - 1) \div size
    IN  [x \in 1..n |->
           SubSeq(the_list, (x - 1) * size + 1, Min(x * size, Len(the_list)))]

\* the list left in one bank
banked_list_whole(c, slice_list) ==
    IF slice_list = <<>> THEN <<>> ELSE <<slice_list>>

banked_list(c, slice_list) ==
    LET clr == chunk_length_repeat(c.slice_dirs, c.shape)
    IN  split_list(slice_list, clr.length[1])

\* the extra indices given to the last sections instead of the first
array_split_extras_last(K, nSections, p) ==
    LET each == K \div nSections
        extras == K % nSections
        size(q) == IF q >= nSections - extras THEN each + 1 ELSE each
        RECURSIVE div_point(_)
        div_point(q) == IF q = 0 THEN 0 ELSE div_point(q - 1) + size(q - 1)
    IN  [i \in 1..size(p) |-> div_point(p) + i - 1]

\* np.array_split(frame_idx, n)[p]: the first (K mod n) sections hold
\* K div n + 1 indices, the others K div n
array_split(K, nSections, p) ==
    LET each == K \div nSections
        extras == K % nSections
        size(q) == IF q < extras THEN each + 1 ELSE each
        RECURSIVE div_point(_)
        div_point(q) == IF q = 0 THEN 0 ELSE div_point(q - 1) + size(q - 1)
    IN  [i \in 1..size(p) |-> div_point(p) + i - 1]

\* slice_list[frames[0]:frames[-1]]: the last frame of the share left out
get_frames_per_process_short(c, p, slice_list) ==
    LET take(frames) ==
            IF frames = <<>>
            THEN [slice_list |-> <<>>, frames |-> frames]
            ELSE [slice_list |-> SubSeq(slice_list, frames[1] + 1, frames[Len(frames)]),
                  frames |-> frames]
    IN  take(array_split(Len(slice_list), Len(c.processes), p))

\* the IndexError swallowed without emptying the list
get_frames_per_process_keep(c, p, slice_list) ==
    LET take(frames) ==
            IF frames = <<>>
            THEN [slice_list |-> slice_list, frames |-> frames]
            ELSE [slice_list |-> SubSeq(slice_list, frames[1] + 1, frames[Len(frames)] + 1),
                  frames |-> frames]
    IN  take(array_split(Len(slice_list), Len(c.processes), p))

\* an empty section makes frames[0] raise the IndexError that is caught
get_frames_per_process(c, p, slice_list) ==
    LET take(frames) ==
            IF frames = <<>>
            THEN [slice_list |-> <<>>, frames |-> frames]
            ELSE [slice_list |-> SubSeq(slice_list, frames[1] + 1, frames[Len(frames)] + 1),
                  frames |-> frames]
    IN  take(array_split(Len(slice_list), Len(c.processes), p))

\* exec('inc_start = ' + str) for the strings the callers pass
exec_inc(str, value) ==
    CASE str = "-value['before']" -> -value.before
      [] str = "value['after']" -> value.after
      [] str = "0" -> 0
      [] str = "sum(value.values())" -> value.before + value.after

\* the padded start kept at 0 when it would be negative
pad_slice_list_clipped(c, slice_list, inc_start_str, inc_stop_str) ==
    LET pad_dict == c.padding
        padded(e, d) ==
            LET value == pad_dict[CHOOSE k \in 1..Len(pad_dict) : pad_dict[k].ddir = d]
                sl == IF e[d + 1].full THEN slice(0, c.shape[d + 1], 1) ELSE e[d + 1]
                inc_start == exec_inc(inc_start_str, value)
                inc_stop == exec_inc(inc_stop_str, value)
            IN  slice(IF sl.start + inc_start < 0 THEN 0 ELSE sl.start + inc_start,
                      sl.stop + inc_stop, sl.step)
    IN  IF pad_dict = <<>>
        THEN slice_list
        ELSE [i \in 1..Len(slice_list) |->
                [d1 \in 1..Len(slice_list[i]) |->
                    IF \E k \in 1..Len(pad_dict) : pad_dict[k].ddir = d1 - 1
                    THEN padded(slice_list[i], d1 - 1)
                    ELSE slice_list[i][d1]]]

pad_slice_list(c, slice_list, inc_start_str, inc_stop_str) ==
    LET pad_dict == c.padding
        padded(e, d) ==
            LET value == pad_dict[CHOOSE k \in 1..Len(pad_dict) : pad_dict[k].ddir = d]
                sl == IF e[d + 1].full THEN slice(0, c.shape[d + 1], 1) ELSE e[d + 1]
                inc_start == exec_inc(inc_start_str, value)
                inc_stop == exec_inc(inc_stop_str, value)
            IN  slice(sl.start + inc_start, sl.stop + inc_stop, sl.step)
    IN  IF pad_dict = <<>>
        THEN slice_list
        ELSE [i \in 1..Len(slice_list) |->
                [d1 \in 1..Len(slice_list[i]) |->
                    IF \E k \in 1..Len(pad_dict) : pad_dict[k].ddir = d1 - 1
                    THEN padded(slice_list[i], d1 - 1)
                    ELSE slice_list[i][d1]]]

fix_list_length(c, sl, length) ==
    IF c.slice_dirs = <<>>
    THEN [err |-> "IndexError", sl |-> sl]
    ELSE LET sdir == c.slice_dirs[1]
             e == sl[sdir + 1]
         IN  IF (e.stop - e.start) < length
             THEN [err |-> "none",
                   sl |-> [sl EXCEPT ![sdir + 1] =
                             slice(e.start, e.stop + (length - (e.stop - e.start)), e.step)]]
             ELSE [err |-> "none", sl |-> sl]

----------------------------------------------------------------------------
(* ProcessData and TransferData.                                           *)

ProcessData_grouped_slice_list(c, slice_list, max_frames, group_dim) ==
    LET of_group(sub_groups) ==
            [s \in 1..Len(sub_groups) |-> group_dimension(sub_groups[s], group_dim[1], 1)]
        of_banked(banked) ==
            Flatten([b \in 1..Len(banked) |-> of_group(split_list(banked[b], max_frames))])
    IN  IF group_dim = None
        THEN slice_list
        ELSE of_banked(banked_list(c, slice_list))

\* nSlices = index.shape[1] if index.size else len(fix[0])
TransferData_local_single_slice_list(c, shape) ==
    LET size(index) == IF index = <<>> THEN 0 ELSE Len(index) * Len(index[1])
        nSlices(index) == IF size(index) # 0 THEN Len(index[1]) ELSE Len(c.fix_dirs)
        build(cs, ix) ==
            IF cs.err # "none" THEN [err |-> cs.err, ssl |-> <<>>]
            ELSE IF ix.err # "none" THEN [err |-> ix.err, ssl |-> <<>>]
            ELSE IF \E i \in 1..Len(ix.index) : Len(ix.index[i]) < nSlices(ix.index)
            THEN [err |-> "IndexError", ssl |-> <<>>]
            ELSE [err |-> "none",
                  ssl |-> single_slice_list(nSlices(ix.index), Len(shape), cs.core_slice,
                                            c.core_dirs, c.slice_dirs, c.fix_dirs,
                                            c.fix_vals, ix.index)]
    IN  build(get_core_slices(c, c.core_dirs),
              get_slice_dirs_index(c.slice_dirs, shape,
                  [i \in 1..Len(c.slice_dirs) |-> get_slice_dir_index(c, c.slice_dirs[i])]))

TransferData_grouped_slice_list(c, slice_list, max_frames, group_dim) ==
    LET RECURSIVE fold(_, _, _)
        fold(temp, sub, k) ==
            IF k > Len(group_dim) THEN temp
            ELSE fold([temp EXCEPT ![group_dim[k] + 1] =
                         group_dimension(sub, group_dim[k],
                                         c.steps[group_dim[k] + 1])[group_dim[k] + 1]],
                      sub, k + 1)
        of_groups(sub_groups) ==
            [s \in 1..Len(sub_groups) |-> fold(sub_groups[s][1], sub_groups[s], 1)]
    IN  IF group_dim = None
        THEN slice_list
        ELSE of_groups(split_list(slice_list, max_frames))

\* self.__split_frames inside class TransferData is the attribute
\* _TransferData__split_frames, which the class does not define
TransferData_split_frames(slice_list, split) ==
    [err |-> "AttributeError", sl |-> <<>>]

TransferData_get_slice_list(c, shape, current_sl) ==
    LET none == [err |-> "none", ssl |-> <<>>, gsl |-> <<>>, current |-> <<>>]
        slice_dir == c.slice_dirs
        finish(transfer_ssl, sp) ==
            IF sp.err # "none"
            THEN [none EXCEPT !.err = sp.err, !.ssl = transfer_ssl]
            ELSE IF current_sl /\ slice_dir = <<>>
            THEN [none EXCEPT !.err = "IndexError", !.ssl = transfer_ssl, !.gsl = sp.sl]
            ELSE [err |-> "none", ssl |-> transfer_ssl, gsl |-> sp.sl,
                  current |-> IF current_sl
                              THEN ProcessData_grouped_slice_list(c, transfer_ssl, c.mfp,
                                                                  <<slice_dir[1]>>)
                              ELSE <<>>]
        split(transfer_ssl, transfer_gsl) ==
            finish(transfer_ssl,
                   IF c.split # <<>>
                   THEN TransferData_split_frames(transfer_gsl, c.split)
                   ELSE [err |-> "none", sl |-> transfer_gsl])
        group(l) ==
            IF l.err # "none" THEN [none EXCEPT !.err = l.err]
            ELSE split(l.ssl, TransferData_grouped_slice_list(c, l.ssl, c.mft, slice_dir))
    IN  group(TransferData_local_single_slice_list(c, shape))

\* no entry of the transfer list has been read yet
NoFetch ==
    [done |-> FALSE, again |-> FALSE, p |-> 0, i |-> 0, req |-> <<>>, slice_list |-> <<>>,
     pad_list |-> <<>>]

\* what a process has not computed yet
NotRun ==
    [op |-> "none", err |-> "none", ssl |-> <<>>, gsl |-> <<>>, dist |-> FALSE,
     sl |-> <<>>, share |-> <<>>, frames |-> <<>>, current |-> <<>>, transfer |-> <<>>,
     process |-> <<>>, unpad |-> <<>>]

TransferData_get_dict_in(c, p) ==
    LET base(g) == [NotRun EXCEPT !.op = "in", !.ssl = g.ssl, !.gsl = g.gsl,
                                  !.current = g.current]
        pad(f) == IF c.padding # <<>>
                  THEN pad_slice_list(c, f.slice_list, "-value['before']", "value['after']")
                  ELSE f.slice_list
        share(g, sl, f) ==
            [base(g) EXCEPT !.dist = TRUE, !.sl = sl, !.share = f.slice_list,
                            !.frames = f.frames, !.transfer = pad(f)]
        distribute(g, sl) == share(g, sl, get_frames_per_process(c, p, sl))
        fix(g, fixed) ==
            IF (~c.bpad /\ g.gsl = <<>>) \/ \E i \in 1..Len(fixed) : fixed[i].err # "none"
            THEN [base(g) EXCEPT !.err = "IndexError"]
            ELSE distribute(g, [i \in 1..Len(fixed) |-> fixed[i].sl])
        plan(g) ==
            IF g.err # "none" THEN [base(g) EXCEPT !.err = g.err]
            ELSE fix(g, IF c.bpad
                        THEN [i \in 1..Len(g.gsl) |-> fix_list_length(c, g.gsl[i], c.mfp)]
                        ELSE [i \in 1..Len(g.gsl) |->
                                IF i = Len(g.gsl) THEN fix_list_length(c, g.gsl[i], c.mft)
                                ELSE [err |-> "none", sl |-> g.gsl[i]]])
    IN  plan(TransferData_get_slice_list(c, c.shape, TRUE))

\* the grouped list taken from the entry of the own rank on, wrapping round
TransferData_get_dict_out_by_rank(c, p) ==
    LET rotate(l) == [i \in 1..Len(l) |-> l[((i - 1 + p) % Len(l)) + 1]]
        base(g) == [NotRun EXCEPT !.op = "out", !.ssl = g.ssl, !.gsl = rotate(g.gsl)]
        share(g, f) ==
            [base(g) EXCEPT !.dist = TRUE, !.sl = rotate(g.gsl), !.share = f.slice_list,
                            !.frames = f.frames, !.transfer = f.slice_list]
        plan(g) ==
            IF g.err # "none" THEN [base(g) EXCEPT !.err = g.err]
            ELSE share(g, get_frames_per_process(c, p, rotate(g.gsl)))
    IN  plan(TransferData_get_slice_list(c, c.shape, FALSE))

TransferData_get_dict_out(c, p) ==
    LET base(g) == [NotRun EXCEPT !.op = "out", !.ssl = g.ssl, !.gsl = g.gsl]
        share(g, f) ==
            [base(g) EXCEPT !.dist = TRUE, !.sl = g.gsl, !.share = f.slice_list,
                            !.frames = f.frames, !.transfer = f.slice_list]
        plan(g) ==
            IF g.err # "none" THEN [base(g) EXCEPT !.err = g.err]
            ELSE share(g, get_frames_per_process(c, p, g.gsl))
    IN  plan(TransferData_get_slice_list(c, c.shape, FALSE))

\* the bound taken as the last index: diff = sl.stop - shape[dim] + 1
TransferData_get_padded_data_inclusive(c, slice_list) ==
    LET pad_dims == Elems(c.core_dirs) \cup {c.slice_dirs[1]}
        shape == c.data_shape
        treated(d1) == d1 <= Cardinality(pad_dims)
        sl(d1) == slice_list[d1]
        diff(d1) == sl(d1).stop - shape[d1] + 1
        lead(d1) == IF treated(d1) /\ sl(d1).start < 0 THEN -sl(d1).start ELSE 0
        trail(d1) == IF treated(d1) /\ diff(d1) > 0 THEN diff(d1) ELSE 0
        clipped(d1) ==
            slice(IF sl(d1).start < 0 THEN 0 ELSE sl(d1).start,
                  IF diff(d1) > 0 THEN sl(d1).stop - diff(d1) ELSE sl(d1).stop,
                  sl(d1).step)
    IN  [slice_list |-> [d1 \in 1..Len(slice_list) |->
                           IF treated(d1) THEN clipped(d1) ELSE sl(d1)],
         pad_list |-> [d1 \in 1..Len(slice_list) |-> <<lead(d1), trail(d1)>>]]

\* TransferData._get_padded_data: the loop runs over the positions
\* 0 .. len(pad_dims) - 1; shape is the shape of the backing array
TransferData_get_padded_data(c, slice_list) ==
    LET pad_dims == Elems(c.core_dirs) \cup {c.slice_dirs[1]}
        shape == c.data_shape
        treated(d1) == d1 <= Cardinality(pad_dims)
        sl(d1) == slice_list[d1]
        diff(d1) == sl(d1).stop - shape[d1]
        lead(d1) == IF treated(d1) /\ sl(d1).start < 0 THEN -sl(d1).start ELSE 0
        trail(d1) == IF treated(d1) /\ diff(d1) > 0 THEN diff(d1) ELSE 0
        clipped(d1) ==
            slice(IF sl(d1).start < 0 THEN 0 ELSE sl(d1).start,
                  IF diff(d1) > 0 THEN sl(d1).stop - diff(d1) ELSE sl(d1).stop,
                  sl(d1).step)
    IN  [slice_list |-> [d1 \in 1..Len(slice_list) |->
                           IF treated(d1) THEN clipped(d1) ELSE sl(d1)],
         pad_list |-> [d1 \in 1..Len(slice_list) |-> <<lead(d1), trail(d1)>>]]

\* pData.get_shape_transfer(): the shape of one transferred block, the
\* core dimensions in full, max_frames_transfer along the first slice
\* dimension, 1 along the others
get_shape_transfer(c) ==
    [d1 \in 1..c.nDims |->
        IF (d1 - 1) \in Elems(c.core_dirs) THEN c.shape[d1]
        ELSE IF c.slice_dirs # <<>> /\ d1 - 1 = c.slice_dirs[1] THEN c.mft
        ELSE 1]

\* self.sdir after ProcessData._local_single_slice_list
ProcessData_sdir(c) == IF Len(c.slice_dirs) > 0 THEN <<c.slice_dirs[1]>> ELSE None

\* index = index if index.size else np.array([[0]]); fix = [[]]*2
ProcessData_local_single_slice_list(c, shape) ==
    LET core_slice == [i \in 1..Len(c.core_dirs) |-> sliceNone]
        build(ix) ==
            single_slice_list(Len(ix[1]), Len(shape), core_slice, c.core_dirs,
                              c.slice_dirs, <<>>, <<>>, ix)
        index(ix) == IF ix = <<>> \/ ix[1] = <<>> THEN <<(<<0>>)>> ELSE ix
    IN  build(index(get_slice_dirs_index(c.slice_dirs, shape,
                  [i \in 1..Len(c.slice_dirs) |->
                      [err |-> "none",
                       vals |-> arange(0, shape[c.slice_dirs[i] + 1], 1)]]).index))

ProcessData_get_slice_list(c) ==
    ProcessData_grouped_slice_list(c,
        ProcessData_local_single_slice_list(c, get_shape_transfer(c)),
        c.mfp, ProcessData_sdir(c))

\* `if self.sdir:` holds for a first slice dimension other than 0
ProcessData_get_dict_in(c) ==
    LET fixed(sl) ==
            IF ProcessData_sdir(c) # None /\ ProcessData_sdir(c)[1] # 0
            THEN [i \in 1..Len(sl) |->
                    IF i = Len(sl) THEN fix_list_length(c, sl[i], c.mfp).sl ELSE sl[i]]
            ELSE sl
        padded(sl) == pad_slice_list(c, sl, "0", "sum(value.values())")
    IN  [process |-> padded(fixed(ProcessData_get_slice_list(c))), unpad |-> <<>>]

\* slice(before, -after) in every padded dimension, repeated reps times
ProcessData_get_unpad_slice_list(c, reps) ==
    LET padded(d) == \E k \in 1..Len(c.padding) : c.padding[k].ddir = d
        value(d) == c.padding[CHOOSE k \in 1..Len(c.padding) : c.padding[k].ddir = d]
        sl == [d1 \in 1..Len(get_shape_transfer(c)) |->
                 IF padded(d1 - 1)
                 THEN slice2(value(d1 - 1).before, -value(d1 - 1).after)
                 ELSE sliceNone]
    IN  [i \in 1..reps |-> sl]

ProcessData_get_dict_out(c) ==
    LET dict(process) ==
            [process |-> process,
             unpad |-> ProcessData_get_unpad_slice_list(c, Len(process))]
    IN  dict(ProcessData_get_slice_list(c))

\* trans_dict, then proc_dict, combined into one dictionary; an exception
\* of the first leaves the second unbuilt
get_slice_lists_per_process(c, p) ==
    LET combine(t, d) == [t EXCEPT !.process = d.process, !.unpad = d.unpad]
        proc(t) ==
            IF t.err # "none" THEN t
            ELSE combine(t, IF c.dtype = "in" THEN ProcessData_get_dict_in(c)
                            ELSE ProcessData_get_dict_out(c))
    IN  proc(IF c.dtype = "in" THEN TransferData_get_dict_in(c, p)
             ELSE TransferData_get_dict_out(c, p))

----------------------------------------------------------------------------
(* The configurations of a run.  get_shape() is the shape of the preview:  *)
(* the number of points of every dimension's (start, stop, step).          *)

Pattern(n, core, sl, fix, vals) ==
    [nDims |-> n, core_dirs |-> core, slice_dirs |-> sl, fix_dirs |-> fix, fix_vals |-> vals]

PatProjection == Pattern(3, <<1, 2>>, <<0>>, <<>>, <<>>)
PatSinogram == Pattern(3, <<2, 0>>, <<1>>, <<>>, <<>>)
PatTwoSlice == Pattern(3, <<2>>, <<0, 1>>, <<>>, <<>>)
PatTwoSliceRev == Pattern(3, <<0>>, <<2, 1>>, <<>>, <<>>)
PatThreeSlice == Pattern(4, <<3>>, <<1, 0, 2>>, <<>>, <<>>)
PatSliceFixed == Pattern(3, <<1>>, <<0>>, <<2>>, <<1>>)
PatAllCore == Pattern(2, <<0, 1>>, <<>>, <<>>, <<>>)
PatFixedOnly == Pattern(3, <<0>>, <<>>, <<1, 2>>, <<0, 1>>)

Patterns ==
    {PatProjection, PatSinogram, PatTwoSlice, PatTwoSliceRev, PatThreeSlice,
     PatSliceFixed, PatAllCore, PatFixedOnly}

\* the lengths that vary: those of the slice dimensions, or of the core
\* dimensions of a pattern without slice dimensions
Lens(pat) ==
    LET varying == IF pat.slice_dirs # <<>> THEN Elems(pat.slice_dirs)
                   ELSE Elems(pat.core_dirs)
    IN  {l \in [1..pat.nDims -> 1..MaxLen] :
           \A d1 \in 1..pat.nDims : (d1 - 1) \notin varying => l[d1] = MaxLen}

Padding(d, b, a) == [ddir |-> d, before |-> b, after |-> a]

\* no padding, or padding of the first slice dimension and of a core one
Paddings(pat) ==
    IF pat.slice_dirs = <<>> THEN {<<>>}
    ELSE {<<>>, <<Padding(pat.slice_dirs[1], 1, 2)>>,
          <<Padding(pat.core_dirs[1], 2, 0), Padding(pat.slice_dirs[1], 0, 1)>>}

Config(pat, lens, start, step, mft, mfp, bpad, padding, split, dtype, W) ==
    [nDims |-> pat.nDims, core_dirs |-> pat.core_dirs, slice_dirs |-> pat.slice_dirs,
     fix_dirs |-> pat.fix_dirs, fix_vals |-> pat.fix_vals,
     starts |-> [d \in 1..pat.nDims |-> start],
     stops |-> [d \in 1..pat.nDims |-> start + lens[d] * step],
     steps |-> [d \in 1..pat.nDims |-> step],
     chunks |-> [d \in 1..pat.nDims |-> 1],
     data_shape |-> [d \in 1..pat.nDims |-> start + lens[d] * step],
     shape |-> lens, mft |-> mft, mfp |-> mfp, bpad |-> bpad, padding |-> padding,
     split |-> split, dtype |-> dtype, processes |-> [i \in 1..W |-> "CPU"]]

\* cfg is one of the configurations drawn from the given sets
ConfigIn(pats, starts, steps, mfts, mfps, bpads, padded, splits, dtypes, Ws) ==
    \E pat \in pats : \E lens \in Lens(pat) : \E start \in starts, step \in steps :
    \E mft \in mfts, mfp \in mfps, bpad \in bpads, split \in splits :
    \E padding \in (IF padded THEN Paddings(pat) ELSE {<<>>}) :
    \E dtype \in dtypes, W \in Ws :
        cfg = Config(pat, lens, start, step, mft, mfp, bpad, padding, split, dtype, W)

\* every pattern and window; one process, no padding, no split
GridConfig ==
    ConfigIn(Patterns, 0..MaxStart, 1..MaxStep, 1..MaxFrames, {1}, {FALSE}, FALSE,
             {<<>>}, {"in", "out"}, {1})

\* the options of the planner: both limits, boundary padding and padding,
\* or the split directive "0.2", held as its two numbers
OptionConfig ==
    \/ ConfigIn({PatProjection, PatTwoSlice}, {0}, {1, MaxStep}, 1..MaxFrames,
                1..MaxFrames, BOOLEAN, TRUE, {<<>>}, {"in", "out"}, {1})
    \/ ConfigIn({PatProjection, PatTwoSlice}, {0}, {1, MaxStep}, 1..MaxFrames, {1},
                {FALSE}, FALSE, {<<[dim |-> 0, size |-> 2]>>}, {"in", "out"}, {1})

\* runs of several processes
RunConfig ==
    ConfigIn({PatProjection, PatTwoSlice, PatAllCore}, {0}, {1}, 1..MaxFrames, {1},
             {FALSE}, TRUE, {<<>>}, {"in", "out"}, 1..MaxProcs)

\* a preview with chunks: every dimension has its own span and chunk, the
\* start of the run and step 1; the shape of the preview holds chunk indices per point
Window(pat, start, spans, chunks, mft, dtype) ==
    [Config(pat, spans, start, 1, mft, 1, FALSE, <<>>, <<>>, dtype, 1) EXCEPT
        !.chunks = chunks,
        !.data_shape = [d \in 1..pat.nDims |-> start + spans[d] + MaxChunk],
        !.shape = [d \in 1..pat.nDims |-> spans[d] * chunks[d]]]

WindowConfig ==
    \E pat \in {PatProjection, PatSinogram, PatTwoSlice} :
    \E start \in 0..MaxStart :
    \E spans \in [1..pat.nDims -> 1..MaxSpan] :
    \E chunks \in [1..pat.nDims -> 1..MaxChunk] :
    \E dtype \in {"in", "out"} :
        cfg = Window(pat, start, spans, chunks, 2, dtype)

Procs == 0..(Len(cfg.processes) - 1)

----------------------------------------------------------------------------
(* The run: every process builds the transfer part of its slice lists.     *)

Init ==
    /\ (GridConfig \/ OptionConfig \/ RunConfig)
    /\ res = [p \in 0..(Len(cfg.processes) - 1) |-> NotRun]
    /\ fetch = NoFetch

\* _get_slice_lists_per_process('in') of process p
GetDictIn(p) ==
    /\ cfg.dtype = "in"
    /\ res[p].op = "none"
    /\ res' = [res EXCEPT ![p] = get_slice_lists_per_process(cfg, p)]
    /\ UNCHANGED <<cfg, fetch>>

\* _get_slice_lists_per_process('out') of process p
GetDictOut(p) ==
    /\ cfg.dtype # "in"
    /\ res[p].op = "none"
    /\ res' = [res EXCEPT ![p] = get_slice_lists_per_process(cfg, p)]
    /\ UNCHANGED <<cfg, fetch>>

\* what _get_padded_data reads the request req with
Fetched(p, i, again, req) ==
    [done |-> TRUE, again |-> again, p |-> p, i |-> i, req |-> req,
     slice_list |-> TransferData_get_padded_data(cfg, req).slice_list,
     pad_list |-> TransferData_get_padded_data(cfg, req).pad_list]

\* _get_padded_data of an entry of the 'transfer' list of process p, or,
\* again, of the selector that call has read with; the calls do not depend
\* on each other, and a behaviour follows one of them
GetPaddedData(p) ==
    /\ res[p].op = "in"
    /\ res[p].err = "none"
    /\ \/ /\ ~fetch.done
          /\ \E i \in 1..Len(res[p].transfer) :
                fetch' = Fetched(p, i, FALSE, res[p].transfer[i])
       \/ /\ fetch.done
          /\ ~fetch.again
          /\ fetch.p = p
          /\ fetch' = Fetched(p, fetch.i, TRUE, fetch.slice_list)
    /\ UNCHANGED <<cfg, res>>

Next == \E p \in Procs : GetDictIn(p) \/ GetDictOut(p) \/ GetPaddedData(p)

Spec == Init /\ [][Next]_vars

\* the same run over the previews with chunks
InitWindow ==
    /\ WindowConfig
    /\ res = [p \in 0..(Len(cfg.processes) - 1) |-> NotRun]
    /\ fetch = NoFetch

SpecWindow == InitWindow /\ [][Next]_vars

----------------------------------------------------------------------------
(* DarkFlatFieldCorrection: the check of the corrected data.  Here cfg     *)
(* holds the parameters of the plugin and res the plugin object and the    *)
(* frame it corrects.                                                      *)

\* warn_proportion, in percent (default 0.05)
WarnPercent == 5

\* a parameter that is None, or a number
Unset == [set |-> FALSE, value |-> 0]

Number(v) == [set |-> TRUE, value |-> v]

\* the truth value Python gives a parameter: None and 0 are false
Truthy(b) == b.set /\ b.value # 0

\* (float(crop.sum()) / crop.size) > self.warn
OverWarn(crop, warn) == Cardinality({i \in 1..Len(crop) : crop[i]}) * 100 > warn * Len(crop)

\* DarkFlatFieldCorrection.__data_check on the object o and the frame data:
\* the frame after the lower branch, the frame at the end, the flags, and
\* the UnboundLocalError of low_crop read in the upper branch
data_check(o, parameters, data) ==
    LET low_crop == [i \in 1..Len(data) |-> data[i] < parameters.lower_bound.value]
        lowered == IF Truthy(o.low)
                   THEN [i \in 1..Len(data) |->
                           IF low_crop[i] THEN parameters.lower_bound.value ELSE data[i]]
                   ELSE data
        high_crop == [i \in 1..Len(data) |-> lowered[i] > parameters.upper_bound.value]
        flag_low == o.flag_low_warning \/ (Truthy(o.low) /\ OverWarn(low_crop, o.warn))
        flag_high == o.flag_high_warning \/ (Truthy(o.high) /\ OverWarn(high_crop, o.warn))
    IN  IF ~Truthy(o.low) /\ ~Truthy(o.high)
        THEN [o EXCEPT !.stage = "checked", !.after_low = data, !.data = data]
        ELSE [o EXCEPT !.stage = "checked",
                       !.flag_low_warning = flag_low,
                       !.flag_high_warning = flag_high,
                       !.after_low = lowered,
                       \* data[low_crop] = lower_bound, a second time
                       !.data = lowered,
                       !.err = IF Truthy(o.high) /\ ~Truthy(o.low)
                               THEN "UnboundLocalError" ELSE "none"]

Bounds == {Unset} \cup {Number(v) : v \in (-1)..MaxPixel}

InitDataCheck ==
    /\ \E lower \in Bounds, upper \in Bounds :
          cfg = [plugin |-> "DarkFlatFieldCorrection",
                 parameters |-> [lower_bound |-> lower, upper_bound |-> upper,
                                 warn_proportion |-> WarnPercent]]
    /\ \E frame \in [1..MaxPixels -> (-1)..MaxPixel] :
          res = [stage |-> "init", low |-> Unset, high |-> Unset, warn |-> 0,
                 flag_low_warning |-> FALSE, flag_high_warning |-> FALSE,
                 orig |-> frame, after_low |-> frame, data |-> frame, err |-> "none"]
    /\ fetch = NoFetch

\* pre_process: the bounds and the proportion are read from the parameters
PreProcess ==
    /\ res.stage = "init"
    /\ res' = [res EXCEPT !.stage = "pre",
                          !.warn = cfg.parameters.warn_proportion,
                          !.low = cfg.parameters.lower_bound,
                          !.high = cfg.parameters.upper_bound]
    /\ UNCHANGED <<cfg, fetch>>

\* correct_proj / correct_sino: the corrected frame is checked
DataCheck ==
    /\ res.stage = "pre"
    /\ res' = data_check(res, cfg.parameters, res.data)
    /\ UNCHANGED <<cfg, fetch>>

NextDataCheck == PreProcess \/ DataCheck

SpecDataCheck == InitDataCheck /\ [][NextDataCheck]_vars

----------------------------------------------------------------------------
(* BaseRecon: the centres of rotation of the current frames.  Here cfg     *)
(* holds the metadata and parameters of the input and res the plugin       *)
(* object.                                                                 *)

\* set_centre_of_rotation: the array of the metadata, or the parameter
\* repeated along the slice dimension; centre is its first value
set_centre_of_rotation(o, inShape, mData, parameters) ==
    LET cor == IF mData.has_cor THEN mData.centre_of_rotation
               ELSE [i \in 1..inShape |-> 1 * parameters.centre_of_rotation]
    IN  [o EXCEPT !.stage = "pre", !.cor = cor, !.centre = cor[1]]

\* set_function(False): cor_func = lambda cor: cor
cor_func(cor) == cor

\* base_process_frames, for the selector dim_sl = sl[self.main_dir] of the
\* current slice list: a slice of the 1-d array cor is a 1-d array, whose
\* shape is never (), and holds the values at the indices inside the array
base_process_frames(o, dim_sl) ==
    LET frame_cors == cor_func([i \in 1..Len(selected(dim_sl, Len(o.cor))) |->
                                  o.cor[selected(dim_sl, Len(o.cor))[i] + 1]])
        len_data == Len(arange(dim_sl.start, dim_sl.stop, dim_sl.step))
        n == Len(frame_cors) - len_data
        missing == [i \in 1..(IF n > 0 THEN n ELSE 0) |-> o.centre]
    IN  [o EXCEPT !.stage = "frames", !.dim_sl = dim_sl,
                  !.frame_cors = frame_cors \o missing]

get_cors(o) == o.frame_cors

\* the arrays of centres of a metadata entry
CorArrays == UNION {[1..n -> 0..MaxPixel] : n \in 1..MaxLen}

\* the selectors of a current slice along the main dimension of length n:
\* they start inside it, and fixed-length enforcement may have moved the
\* stop past its end
CurrentSlices(n) ==
    {slice(a, a + k, st) : a \in 0..(n - 1), k \in 1..(MaxFrames * MaxStep), st \in 1..MaxStep}

InitRecon ==
    /\ \/ \E cor \in CorArrays :
             cfg = [plugin |-> "BaseRecon", shape |-> Len(cor),
                    in_meta_data |-> [has_cor |-> TRUE, centre_of_rotation |-> cor],
                    parameters |-> [centre_of_rotation |-> 0]]
       \/ \E n \in 1..MaxLen, c \in 0..MaxPixel :
             cfg = [plugin |-> "BaseRecon", shape |-> n,
                    in_meta_data |-> [has_cor |-> FALSE, centre_of_rotation |-> <<>>],
                    parameters |-> [centre_of_rotation |-> c]]
    /\ res = [stage |-> "init", cor |-> <<>>, centre |-> 0,
              dim_sl |-> sliceNone, frame_cors |-> <<>>]
    /\ fetch = NoFetch

\* base_pre_process
BasePreProcess ==
    /\ res.stage = "init"
    /\ res' = set_centre_of_rotation(res, cfg.shape, cfg.in_meta_data, cfg.parameters)
    /\ UNCHANGED <<cfg, fetch>>

\* process_frames of a reconstruction, once per current slice
BaseProcessFrames ==
    /\ res.stage # "init"
    /\ \E dim_sl \in CurrentSlices(cfg.shape) : res' = base_process_frames(res, dim_sl)
    /\ UNCHANGED <<cfg, fetch>>

NextRecon == BasePreProcess \/ BaseProcessFrames

SpecRecon == InitRecon /\ [][NextRecon]_vars

----------------------------------------------------------------------------
(* The loaders: the access patterns they register.  Here cfg holds the     *)
(* loader, its parameters and the rank of the data, and res the data       *)
(* object being set up.                                                    *)

\* tuple(s) for a set s of dimensions: ascending
RECURSIVE tuple(_)
tuple(s) ==
    IF s = {} THEN <<>>
    ELSE LET m == CHOOSE x \in s : \A y \in s : x <= y
         IN  <<m>> \o tuple(s \ {m})

\* every dimension kept
tuple_set_all(dims, dirs) == tuple(Elems(dims))

\* tuple(set(dims) - set(dirs))
tuple_set_difference(dims, dirs) == tuple(Elems(dims) \ Elems(dirs))

add_pattern(o, name, core_dir, slice_dir) ==
    [o EXCEPT !.patterns = Append(o.patterns,
                [name |-> name, core_dir |-> core_dir, slice_dir |-> slice_dir])]

\* NxtomoLoader._setup_3d
setup_3d(o) ==
    LET rot == 0
        detY == 1
        detX == 2
    IN  add_pattern(add_pattern(o, "PROJECTION", <<detX, detY>>, <<rot>>),
                    "SINOGRAM", <<detX, rot>>, <<detY>>)

\* NxtomoLoader.__setup_4d
setup_4d(o) ==
    LET rot == 0
        detY == 1
        detX == 2
        scan == 3
    IN  add_pattern(add_pattern(o, "PROJECTION", <<detX, detY>>, <<rot, scan>>),
                    "SINOGRAM", <<detX, rot>>, <<detY, scan>>)

\* NxtomoLoader.setup: the patterns, and the rank of the data they describe
NxtomoLoader_setup(o, parameters, rank) ==
    IF parameters.to4d
    THEN [setup_4d(o) EXCEPT !.stage = "patterns", !.nDims = 4]
    ELSE IF rank = 3
    THEN [setup_3d(o) EXCEPT !.stage = "patterns", !.nDims = rank]
    ELSE [setup_4d(o) EXCEPT !.stage = "patterns", !.nDims = rank]

\* BaseI18MultiModalLoader.set_motors: an axis with a motor of the scan
\* pattern is a rotation or a translation, the others are detector axes
set_motors(o, parameters, nAxes) ==
    LET motors == parameters.scan_pattern
        motor_type == [i \in 1..nAxes |->
                         IF i > Len(motors) THEN "None"
                         ELSE IF motors[i] = "rotation" THEN "rotation"
                         ELSE "translation"]
        cts == Cardinality({i \in 1..nAxes : motor_type[i] = "translation"})
    IN  [o EXCEPT !.stage = "motors", !.nDims = nAxes, !.motor_type = motor_type,
                  !.is_tomo = \E i \in 1..nAxes : motor_type[i] = "rotation",
                  !.is_map = cts]

\* BaseI18MultiModalLoader.add_patterns_based_on_acquisition; proj_dir is
\* bound only for a map
add_patterns_based_on_acquisition(o, ltype) ==
    LET motor_type == o.motor_type
        n == Len(motor_type)
        dims == [i \in 1..n |-> i - 1]
        projection == tuple({i - 1 : i \in {j \in 1..n : motor_type[j] = "translation"}})
        rotation == CHOOSE r \in 0..(n - 1) :
                        /\ motor_type[r + 1] = "rotation"
                        /\ \A q \in (r + 1)..(n - 1) : motor_type[q + 1] # "rotation"
        proj_dir == projection
        map(x) == IF x.is_map # 0
                  THEN add_pattern(x, "PROJECTION", proj_dir,
                                   tuple_set_difference(dims, proj_dir))
                  ELSE x
        tomo(x) == IF ~x.is_tomo THEN x
                   ELSE IF x.is_map = 0 THEN [x EXCEPT !.err = "UnboundLocalError"]
                   ELSE LET sino_dir == <<rotation, proj_dir[Len(proj_dir)]>>
                        IN  add_pattern(x, "SINOGRAM", sino_dir,
                                        tuple_set_difference(dims, sino_dir))
        fluo(x) == IF x.err = "none" /\ ltype = "fluo"
                   THEN add_pattern(x, "SPECTRUM", <<-1>>, SubSeq(dims, 1, n - 1))
                   ELSE x
        xrd(x) == IF x.err = "none" /\ ltype = "xrd"
                  THEN add_pattern(x, "DIFFRACTION", <<-2, -1>>, SubSeq(dims, 1, n - 2))
                  ELSE x
    IN  [xrd(fluo(tomo(map(o)))) EXCEPT !.stage = "patterns"]

\* the motors a scan pattern names
Motors == {"rotation", "x", "y"}

ScanPatterns == UNION {[1..n -> Motors] : n \in 0..MaxLen}

\* the detector axes of a fluorescence and of a diffraction dataset
DetectorAxes(ltype) == IF ltype = "fluo" THEN 1 ELSE 2

InitLoader ==
    /\ \/ \E rank \in 3..4, to4d \in BOOLEAN :
             /\ to4d => rank = 3
             /\ cfg = [loader |-> "NxtomoLoader", ltype |-> "tomo", rank |-> rank,
                       parameters |-> [to4d |-> to4d, scan_pattern |-> <<>>]]
       \/ \E ltype \in {"fluo", "xrd"}, scan \in ScanPatterns :
             \E rank \in DetectorAxes(ltype)..MaxAxes :
                cfg = [loader |-> "BaseI18MultiModalLoader", ltype |-> ltype, rank |-> rank,
                       parameters |-> [to4d |-> FALSE, scan_pattern |-> scan]]
    /\ res = [stage |-> "init", nDims |-> 0, motor_type |-> <<>>, is_tomo |-> FALSE,
              is_map |-> 0, patterns |-> <<>>, err |-> "none"]
    /\ fetch = NoFetch

NxtomoSetup ==
    /\ cfg.loader = "NxtomoLoader" /\ res.stage = "init"
    /\ res' = NxtomoLoader_setup(res, cfg.parameters, cfg.rank)
    /\ UNCHANGED <<cfg, fetch>>

SetMotors ==
    /\ cfg.loader = "BaseI18MultiModalLoader" /\ res.stage = "init"
    /\ res' = set_motors(res, cfg.parameters, cfg.rank)
    /\ UNCHANGED <<cfg, fetch>>

AddPatternsBasedOnAcquisition ==
    /\ cfg.loader = "BaseI18MultiModalLoader" /\ res.stage = "motors"
    /\ res' = add_patterns_based_on_acquisition(res, cfg.ltype)
    /\ UNCHANGED <<cfg, fetch>>

NextLoader == NxtomoSetup \/ SetMotors \/ AddPatternsBasedOnAcquisition

SpecLoader == InitLoader /\ [][NextLoader]_vars

----------------------------------------------------------------------------
(* GpuPlugin.run_plugin, run by every process of the run.  Here cfg holds  *)
(* the process list and the number of frames, and res, per process, the    *)
(* position in run_plugin, the calls made so far, whether the barrier has  *)
(* been entered, and the frames taken in transport.process.                *)

\* the names of a process list
ProcessNames == {"CPU0", "GPU0"}

\* "GPU" in i
InGPU(i) == i \in {"GPU0"}

\* every process counted as a GPU process
gpu_processes_all(processes) == [i \in 1..Len(processes) |-> i - 1]

\* gpu_processes: the count of the GPU entries before a GPU entry, -1 for
\* any other entry
gpu_processes(processes) ==
    [i \in 1..Len(processes) |->
        IF InGPU(processes[i])
        THEN Cardinality({j \in 1..(i - 1) : InGPU(processes[j])})
        ELSE -1]

\* the calls of a process that runs the plugin
PluginCalls == <<"pre_process", "transport.process", "exp.barrier", "post_process", "clean_up">>

\* exp.barrier(): a collective of every process of the run
barrier_open == \A q \in Procs : res[q].entered

NotStarted == [pc |-> "start", calls |-> <<>>, entered |-> FALSE, frames |-> <<>>]

InitGpu ==
    /\ \E n \in 1..MaxProcs, K \in 1..MaxFrames :
          \E processes \in [1..n -> ProcessNames] :
             cfg = [plugin |-> "GpuPlugin", processes |-> processes, nFrames |-> K]
    /\ res = [p \in 0..(Len(cfg.processes) - 1) |-> NotStarted]
    /\ fetch = NoFetch

\* if gpu_processes[process] >= 0: ... return
GpuCheck(p) ==
    /\ res[p].pc = "start"
    /\ res' = [res EXCEPT ![p].pc =
                  IF gpu_processes(cfg.processes)[p + 1] >= 0 THEN "pre" ELSE "done"]
    /\ UNCHANGED <<cfg, fetch>>

GpuPreProcess(p) ==
    /\ res[p].pc = "pre"
    /\ res' = [res EXCEPT ![p].pc = "process",
                          ![p].calls = Append(@, "pre_process")]
    /\ UNCHANGED <<cfg, fetch>>

\* transport.process(self): the process takes its share of the frames
GpuTransportProcess(p) ==
    /\ res[p].pc = "process"
    /\ res' = [res EXCEPT ![p].pc = "barrier",
                          ![p].calls = Append(@, "transport.process"),
                          ![p].frames = get_frames_per_process(cfg, p,
                                            arange(0, cfg.nFrames, 1)).frames]
    /\ UNCHANGED <<cfg, fetch>>

\* exp.barrier() is called
GpuBarrierEnter(p) ==
    /\ res[p].pc = "barrier"
    /\ res' = [res EXCEPT ![p].pc = "waiting",
                          ![p].calls = Append(@, "exp.barrier"),
                          ![p].entered = TRUE]
    /\ UNCHANGED <<cfg, fetch>>

\* exp.barrier() returns
GpuBarrierRelease(p) ==
    /\ res[p].pc = "waiting"
    /\ barrier_open
    /\ res' = [res EXCEPT ![p].pc = "post"]
    /\ UNCHANGED <<cfg, fetch>>

GpuPostProcess(p) ==
    /\ res[p].pc = "post"
    /\ res' = [res EXCEPT ![p].pc = "clean",
                          ![p].calls = Append(@, "post_process")]
    /\ UNCHANGED <<cfg, fetch>>

GpuCleanUp(p) ==
    /\ res[p].pc = "clean"
    /\ res' = [res EXCEPT ![p].pc = "done",
                          ![p].calls = Append(@, "clean_up")]
    /\ UNCHANGED <<cfg, fetch>>

\* the next statement of run_plugin in process p
run_plugin(p) ==
    \/ GpuCheck(p)
    \/ GpuPreProcess(p)
    \/ GpuTransportProcess(p)
    \/ GpuBarrierEnter(p)
    \/ GpuBarrierRelease(p)
    \/ GpuPostProcess(p)
    \/ GpuCleanUp(p)

NextGpu == \E p \in Procs : run_plugin(p)

SpecGpu == InitGpu /\ [][NextGpu]_vars

\* every process of the run keeps running: a process that can execute its
\* next statement does so
SpecGpuFair ==
    /\ InitGpu /\ [][NextGpu]_vars
    /\ \A p \in 0..(MaxProcs - 1) : WF_vars(p \in Procs /\ run_plugin(p))

----------------------------------------------------------------------------
(* Properties of the distribution over processes.                          *)

\* C1: when every process of the run has taken its share of the slice list
\* L, the covered frame indices of two processes are disjoint, every share
\* holds the entries of L at its frame indices, the lengths of the shares
\* sum to Len(L), and the shares concatenated in rank order are L.
C1_SharesPartitionList ==
    (\A p \in Procs : res[p].dist) =>
        LET L == res[0].sl
            W == Len(cfg.processes)
            RECURSIVE total(_)
            total(p) == IF p < 0 THEN 0 ELSE Len(res[p].share) + total(p - 1)
        IN  /\ \A p \in Procs : res[p].sl = L
            /\ \A p, q \in Procs :
                 p # q => Elems(res[p].frames) \cap Elems(res[q].frames) = {}
            /\ \A p \in Procs :
                 /\ Len(res[p].share) = Len(res[p].frames)
                 /\ \A i \in 1..Len(res[p].share) :
                      res[p].share[i] = L[res[p].frames[i] + 1]
            /\ total(W - 1) = Len(L)
            /\ Flatten([q \in 1..W |-> res[q - 1].share]) = L

\* three processes have split four batches
C1_Witness ==
    /\ Len(cfg.processes) = 3
    /\ \A p \in Procs : res[p].dist
    /\ Len(res[0].sl) = 4
    /\ Len(res[0].share) = 2

\* C2: the frame indices of a share are consecutive, the first K mod W
\* ranks hold floor(K/W) + 1 frames and the others floor(K/W), so sizes
\* differ by at most one and never grow with the rank; with K = W the share
\* of rank p is the batch of index p.
C2_NearEvenContiguous ==
    \A p \in Procs : res[p].dist =>
        LET K == Len(res[p].sl)
            W == Len(cfg.processes)
            f == res[p].frames
        IN  /\ \A i \in 1..(Len(f) - 1) : f[i + 1] = f[i] + 1
            /\ Len(f) = (K \div W) + (IF p < K % W THEN 1 ELSE 0)
            /\ \A q \in Procs : res[q].dist =>
                 /\ Len(res[q].frames) - Len(f) \in {-1, 0, 1}
                 /\ (p < q => Len(res[q].frames) <= Len(f))
            /\ (K = W => f = <<p>> /\ res[p].share = <<res[p].sl[p + 1]>>)

\* of three processes and five batches the last holds one batch, the first two
C2_Witness ==
    /\ Len(cfg.processes) = 3
    /\ \A p \in Procs : res[p].dist
    /\ Len(res[2].sl) = 5
    /\ Len(res[2].frames) = 1
    /\ Len(res[0].frames) = 2

\* C3: a process whose rank is at least the length K of the distributed
\* list gets an empty share and no frame indices, raises nothing, and its
\* 'transfer' entry is the empty list, with or without padding.
C3_EmptyShareBeyondFrames ==
    \A p \in Procs :
        (res[p].dist /\ Len(res[p].sl) <= p) =>
            /\ res[p].share = <<>>
            /\ res[p].frames = <<>>
            /\ res[p].err = "none"
            /\ res[p].transfer = <<>>

\* rank 2 of three processes, one padded batch to distribute
C3_Witness ==
    /\ Len(cfg.processes) = 3
    /\ cfg.padding # <<>>
    /\ res[2].op = "in"
    /\ res[2].dist
    /\ Len(res[2].sl) = 1
    /\ res[0].dist /\ Len(res[0].transfer) = 1

----------------------------------------------------------------------------
(* Properties of the index grid.                                           *)

\* C4: with slice dimensions d_1..d_m of n_1..n_m iterated points v_1..v_m,
\* the single slice list has n_1 * ... * n_m entries, entry k (from 0)
\* selects in d_i the single index v_i[(k div chunk_i) mod n_i] with chunk_i
\* the product of the n_j, j < i; every combination appears exactly once.
C4_MixedRadixGrid ==
    \A p \in Procs :
        (res[p].op # "none" /\ res[p].err = "none" /\ cfg.slice_dirs # <<>>) =>
            LET m == Len(cfg.slice_dirs)
                v(i) == arange(cfg.starts[cfg.slice_dirs[i] + 1],
                               cfg.stops[cfg.slice_dirs[i] + 1],
                               cfg.steps[cfg.slice_dirs[i] + 1])
                n == [i \in 1..m |-> Len(v(i))]
                chunk(i) == prod(SubSeq(n, 1, i - 1))
                ssl == res[p].ssl
            IN  /\ Len(ssl) = prod(n)
                /\ \A k \in 0..(Len(ssl) - 1) : \A i \in 1..m :
                     LET x == v(i)[((k \div chunk(i)) % n[i]) + 1]
                     IN  ssl[k + 1][cfg.slice_dirs[i] + 1] = slice(x, x + 1, 1)
                /\ \A k \in 1..Len(ssl) : \A j \in 1..Len(ssl) :
                     (k # j) =>
                       \E i \in 1..m : ssl[k][cfg.slice_dirs[i] + 1]
                                         # ssl[j][cfg.slice_dirs[i] + 1]
                /\ \A k \in 2..Len(ssl) :
                     (k - 1) % n[1] # 0 =>
                        \A i \in 2..m : ssl[k][cfg.slice_dirs[i] + 1]
                                          = ssl[k - 1][cfg.slice_dirs[i] + 1]

\* three slice dimensions listed as (1, 0, 2), of 2, 3 and 2 points
C4_Witness ==
    /\ cfg.slice_dirs = <<1, 0, 2>>
    /\ cfg.shape = <<3, 2, 2, MaxLen>>
    /\ cfg.starts[1] = 1 /\ cfg.steps[1] = 2
    /\ res[0].op = "out" /\ res[0].err = "none"
    /\ Len(res[0].ssl) = 12

\* C5: for a pattern whose dimensions are all core (no slice and no fixed
\* dimension) the single slice list has exactly one entry, the configured
\* (start, stop, step) in every dimension, so has the transfer schedule
\* built from it, and nothing is raised.
C5_AllCoreSingleEntry ==
    \A p \in Procs :
        (res[p].op # "none" /\ cfg.slice_dirs = <<>> /\ cfg.fix_dirs = <<>>) =>
            LET window == [d \in 1..cfg.nDims |->
                             slice(cfg.starts[d], cfg.stops[d], cfg.steps[d])]
            IN  /\ res[p].err = "none"
                /\ res[p].ssl = <<window>>
                /\ res[p].transfer = <<window>>

----------------------------------------------------------------------------
(* Properties of the transfer grouping.                                    *)

\* C6: grouping K >= 1 single frames with max_frames M gives ceil(K/M)
\* batches; batch j folds the frames from (j-1)*M on, M of them, the last
\* batch K - M*floor(K/M) of them or M when that is zero: it takes its
\* start from the first and its stop from the last of them, and with one
\* slice dimension its range selects exactly their indices.
C6_GroupedBatchCount ==
    \A p \in Procs :
        (res[p].op # "none" /\ res[p].err = "none" /\ Len(res[p].ssl) >= 1) =>
            LET ssl == res[p].ssl
                gsl == res[p].gsl
                K == Len(ssl)
                M == cfg.mft
                rest == K - M * (K \div M)
                size(j) == IF j < Len(gsl) \/ rest = 0 THEN M ELSE rest
                first(j) == (j - 1) * M + 1
                last(j) == first(j) + size(j) - 1
            IN  /\ Len(gsl) = (K + M - 1) \div M
                /\ \A j \in 1..Len(gsl) :
                     /\ last(j) <= K
                     /\ (j = Len(gsl) => last(j) = K)
                     /\ \A d1 \in 1..cfg.nDims :
                          IF (d1 - 1) \in Elems(cfg.slice_dirs)
                          THEN /\ gsl[j][d1].start = ssl[first(j)][d1].start
                               /\ gsl[j][d1].stop = ssl[last(j)][d1].stop
                          ELSE gsl[j][d1] = ssl[first(j)][d1]
                     /\ Len(cfg.slice_dirs) = 1 =>
                          LET d1 == cfg.slice_dirs[1] + 1
                          IN  arange(gsl[j][d1].start, gsl[j][d1].stop, gsl[j][d1].step)
                                = [i \in 1..size(j) |-> ssl[first(j) + i - 1][d1].start]

\* three frames of step 2 from 1 on, grouped by two: [1:4:2] and [5:6:2]
C6_Witness ==
    /\ cfg.slice_dirs = <<0>> /\ cfg.fix_dirs = <<>>
    /\ cfg.mft = 2 /\ cfg.starts[1] = 1 /\ cfg.steps[1] = 2
    /\ res[0].op = "out" /\ res[0].err = "none"
    /\ Len(res[0].ssl) = 3
    /\ Len(res[0].gsl) = 2
    /\ res[0].gsl[1][1] = slice(1, 4, 2)
    /\ res[0].gsl[2][1] = slice(5, 6, 2)

\* C7 as stated: grouping with max_frames = 1 returns the single slice list
\* itself, start, stop and step of every entry, whatever the configured step.
C7_GroupByOneIdentity ==
    \A p \in Procs :
        (res[p].op # "none" /\ res[p].err = "none" /\ cfg.mft = 1) =>
            res[p].gsl = res[p].ssl

\* C7 amended: grouping with max_frames = 1 keeps the length and the order,
\* every entry keeps the start and the stop of every dimension and so the
\* index it selects; only the step of a grouped dimension becomes the
\* configured step of that dimension, hence the list is returned unchanged
\* when every grouped dimension has the configured step 1.
C7_GroupByOneKeepsFrames ==
    \A p \in Procs :
        (res[p].op # "none" /\ res[p].err = "none" /\ cfg.mft = 1) =>
            LET ssl == res[p].ssl
                gsl == res[p].gsl
            IN  /\ Len(gsl) = Len(ssl)
                /\ \A i \in 1..Len(gsl) : \A d1 \in 1..cfg.nDims :
                     IF (d1 - 1) \in Elems(cfg.slice_dirs)
                     THEN /\ gsl[i][d1]
                               = slice(ssl[i][d1].start, ssl[i][d1].stop, cfg.steps[d1])
                          /\ arange(gsl[i][d1].start, gsl[i][d1].stop, gsl[i][d1].step)
                               = <<ssl[i][d1].start>>
                     ELSE gsl[i][d1] = ssl[i][d1]
                /\ (\A k \in 1..Len(cfg.slice_dirs) :
                       cfg.steps[cfg.slice_dirs[k] + 1] = 1) => gsl = ssl

\* frames of a dimension with step 2, grouped one by one
C7_Witness ==
    /\ cfg.mft = 1 /\ cfg.slice_dirs = <<0, 1>> /\ cfg.steps[1] = 2
    /\ res[0].op # "none" /\ res[0].err = "none"
    /\ Len(res[0].gsl) = 4
    /\ res[0].gsl[2][1] = slice(2, 3, 2)

\* C8: without slice dimensions (get_slice_dimensions() is the empty
\* tuple) the transfer grouping returns the single slice list unchanged for
\* every max_frames.
C8_EmptyGroupDimsUnchanged ==
    \A p \in Procs :
        (res[p].op # "none" /\ cfg.slice_dirs = <<>>) => res[p].gsl = res[p].ssl

\* C9: in every group dimension the range of a batch has start < stop and
\* selects exactly the indices of the frames folded into the batch, and
\* the folded frames lie in one run of the first slice dimension.
C9_BatchesIndexAdjacent ==
    \A p \in Procs :
        (res[p].op # "none" /\ res[p].err = "none" /\ cfg.slice_dirs # <<>>) =>
            LET ssl == res[p].ssl
                gsl == res[p].gsl
                M == cfg.mft
                n1 == cfg.shape[cfg.slice_dirs[1] + 1]
                first(j) == (j - 1) * M + 1
                last(j) == Min(j * M, Len(ssl))
            IN  \A j \in 1..Len(gsl) :
                  /\ (first(j) - 1) \div n1 = (last(j) - 1) \div n1
                  /\ \A i \in 1..Len(cfg.slice_dirs) :
                       LET r == gsl[j][cfg.slice_dirs[i] + 1]
                       IN  /\ r.start < r.stop
                           /\ Elems(arange(r.start, r.stop, r.step))
                                = {ssl[k][cfg.slice_dirs[i] + 1].start :
                                     k \in first(j)..last(j)}

\* C10: with a split directive "dim.size" the transfer list is built
\* without an error: the extent of the named dimension is cut into pieces
\* of size frames, the last clipped to the stop, and every grouped entry
\* appears once per piece, in the order of the pieces.
C10_CustomSplitReplicates ==
    \A p \in Procs :
        (res[p].op # "none" /\ cfg.split # <<>>) =>
            LET d1 == cfg.split[1].dim + 1
                grouped == TransferData_grouped_slice_list(cfg, res[p].ssl, cfg.mft,
                                                           cfg.slice_dirs)
                lo == grouped[1][d1].start
                hi == grouped[1][d1].stop
                inc == cfg.split[1].size * cfg.steps[d1]
                cuts == arange(lo, hi, inc)
                R == Len(cuts)
            IN  /\ res[p].err = "none"
                /\ Len(res[p].gsl) = Len(grouped) * R
                /\ \A k \in 1..Len(res[p].gsl) :
                     LET e == res[p].gsl[k]
                         a == cuts[((k - 1) % R) + 1]
                     IN  /\ e[d1].start = a
                         /\ e[d1].stop = Min(a + inc, hi)
                         /\ \A o \in 1..cfg.nDims :
                              o # d1 => e[o] = grouped[((k - 1) \div R) + 1][o]

----------------------------------------------------------------------------
(* Properties of the windows with chunks.                                  *)

\* C11: in every entry of a single slice list that was built, a core
\* dimension with chunk > 1 (its span stop - start is then 1) has the
\* selector [start - floor(chunk/2), start + chunk - floor(chunk/2)) of
\* step 1, which holds exactly chunk indices, start among them; a core
\* dimension with chunk <= 1 has the configured (start, stop, step).
C11_CoreChunkWindow ==
    \A p \in Procs :
        (res[p].op # "none" /\ res[p].err = "none") =>
            \A k \in 1..Len(res[p].ssl) : \A i \in 1..Len(cfg.core_dirs) :
                LET d1 == cfg.core_dirs[i] + 1
                    ch == cfg.chunks[d1]
                    lo == cfg.starts[d1] - (ch \div 2)
                    e == res[p].ssl[k][d1]
                IN  IF ch > 1
                    THEN /\ cfg.stops[d1] - cfg.starts[d1] = 1
                         /\ e = slice(lo, lo + ch, 1)
                         /\ Len(arange(e.start, e.stop, e.step)) = ch
                         /\ cfg.starts[d1] \in Elems(arange(e.start, e.stop, e.step))
                    ELSE e = slice(cfg.starts[d1], cfg.stops[d1], cfg.steps[d1])

\* a core dimension of chunk 3 at start 1 gives [0:3:1], one of chunk 1
\* keeps its window
C11_Witness ==
    /\ cfg.core_dirs = <<1, 2>>
    /\ cfg.chunks = <<1, 3, 1>>
    /\ cfg.starts = <<1, 1, 1>> /\ cfg.stops = <<3, 2, 3>>
    /\ res[0].op = "out" /\ res[0].err = "none"
    /\ Len(res[0].ssl) = 2
    /\ res[0].ssl[1][2] = slice(0, 3, 1)
    /\ res[0].ssl[1][3] = slice(1, 3, 1)

\* C12: when a core dimension has chunk > 1 and a span above 1, building
\* the slice lists raises and nothing is returned: no single slice list,
\* no grouped list, no transfer list; when every core dimension of chunk
\* > 1 has span 1, the multiple-chunks exception is not raised.
C12_CoreChunkSpanFails ==
    \A p \in Procs :
        res[p].op # "none" =>
            LET multi(d1) == cfg.chunks[d1] > 1 /\ cfg.stops[d1] - cfg.starts[d1] > 1
                single(d1) == cfg.chunks[d1] > 1 => cfg.stops[d1] - cfg.starts[d1] = 1
            IN  /\ (\E i \in 1..Len(cfg.core_dirs) : multi(cfg.core_dirs[i] + 1)) =>
                     /\ res[p].err # "none"
                     /\ res[p].ssl = <<>> /\ res[p].gsl = <<>>
                     /\ res[p].transfer = <<>>
                /\ (\A i \in 1..Len(cfg.core_dirs) : single(cfg.core_dirs[i] + 1)) =>
                     res[p].err # MultipleChunks

\* the second core dimension has chunk 2 over a span of 2
C12_Witness ==
    /\ cfg.core_dirs = <<2, 0>>
    /\ cfg.chunks = <<2, 1, 1>>
    /\ cfg.starts = <<1, 1, 1>> /\ cfg.stops = <<3, 2, 2>>
    /\ res[0].op = "in"
    /\ res[0].err = MultipleChunks

\* C13: when the window of a core dimension of chunk > 1 would start below
\* 0, or a point of a slice dimension of chunk > 1 lies less than
\* floor(chunk/2) above 0, building raises and no list is returned;
\* otherwise every selector of the single slice list, and every index a
\* slice dimension iterates, is >= 0.
C13_NegativeWindowFails ==
    \A p \in Procs :
        res[p].op # "none" =>
            LET low(d1) == cfg.starts[d1] - (cfg.chunks[d1] \div 2)
                coreNeg == \E i \in 1..Len(cfg.core_dirs) :
                              LET d1 == cfg.core_dirs[i] + 1
                              IN  cfg.chunks[d1] > 1 /\ low(d1) < 0
                sliceNeg == \E i \in 1..Len(cfg.slice_dirs) :
                               LET d1 == cfg.slice_dirs[i] + 1
                               IN  /\ cfg.chunks[d1] > 1
                                   /\ \E q \in Elems(arange(cfg.starts[d1], cfg.stops[d1],
                                                            cfg.steps[d1])) :
                                         q - (cfg.chunks[d1] \div 2) < 0
            IN  IF coreNeg \/ sliceNeg
                THEN /\ res[p].err # "none"
                     /\ res[p].ssl = <<>> /\ res[p].gsl = <<>>
                     /\ res[p].transfer = <<>>
                ELSE \A k \in 1..Len(res[p].ssl) : \A d1 \in 1..cfg.nDims :
                        /\ res[p].ssl[k][d1].start >= 0
                        /\ res[p].ssl[k][d1].stop > res[p].ssl[k][d1].start

\* a slice dimension of chunk 2 iterated from 0: its first window would
\* start at -1, while the core dimensions raise nothing
C13_Witness ==
    /\ cfg.slice_dirs = <<0>>
    /\ cfg.chunks = <<2, 1, 1>>
    /\ cfg.starts[1] = 0
    /\ res[0].op = "out"
    /\ res[0].err = NegativeValue

----------------------------------------------------------------------------
(* Properties of the padding.                                              *)

\* C14: the 'transfer' list of TransferData._get_dict_in has the entries
\* of the share of the process, in their order; in a padded dimension
\* with (before, after) the selector (start, stop, step) of the share is
\* (start - before, stop + after, step), also when that start is negative;
\* the other dimensions are unchanged, and without padding the list is the
\* share.
C14_TransferPadExtends ==
    \A p \in Procs :
        (res[p].op = "in" /\ res[p].dist) =>
            LET share == res[p].share
                transfer == res[p].transfer
                padded(d) == \E k \in 1..Len(cfg.padding) : cfg.padding[k].ddir = d
                value(d) == cfg.padding[CHOOSE k \in 1..Len(cfg.padding) :
                                          cfg.padding[k].ddir = d]
            IN  /\ Len(transfer) = Len(share)
                /\ \A i \in 1..Len(share) : \A d1 \in 1..cfg.nDims :
                     IF padded(d1 - 1)
                     THEN transfer[i][d1]
                            = slice(share[i][d1].start - value(d1 - 1).before,
                                    share[i][d1].stop + value(d1 - 1).after,
                                    share[i][d1].step)
                     ELSE transfer[i][d1] = share[i][d1]
                /\ (cfg.padding = <<>> => transfer = share)

\* a core dimension padded by 2 before its start 0, the slice dimension
\* padded by 1 after
C14_Witness ==
    /\ cfg.padding = <<Padding(1, 2, 0), Padding(0, 0, 1)>>
    /\ cfg.mft = 2 /\ cfg.steps[1] = 2 /\ ~cfg.bpad
    /\ res[0].op = "in" /\ res[0].dist
    /\ Len(res[0].share) = 2
    /\ res[0].share[1][1] = slice(0, 3, 2)
    /\ res[0].transfer[1][1] = slice(0, 4, 2)
    /\ res[0].transfer[1][2].start = -2

\* the dimensions that may carry padding: the core dimensions and the
\* first slice dimension
PadDims == Elems(cfg.core_dirs) \cup {cfg.slice_dirs[1]}

\* C15: reading an entry of the transfer list treats exactly the core
\* dimensions and the first slice dimension, each at its own axis: there
\* a start below 0 gives the leading pad -start and the start 0, a stop
\* above the bound of the array gives the trailing pad stop - bound and
\* the stop bound; every other dimension keeps its selector and has the
\* pads (0, 0).
C15_MaterializeOwnAxes ==
    \A p \in Procs :
        (fetch.done /\ ~fetch.again /\ fetch.p = p) =>
            \A d1 \in 1..cfg.nDims :
                LET r == fetch.req[d1]
                    B == cfg.data_shape[d1]
                    out == fetch.slice_list[d1]
                    pads == fetch.pad_list[d1]
                IN  IF (d1 - 1) \in PadDims
                    THEN /\ pads[1] = (IF r.start < 0 THEN -r.start ELSE 0)
                         /\ pads[2] = (IF r.stop > B THEN r.stop - B ELSE 0)
                         /\ out = slice(IF r.start < 0 THEN 0 ELSE r.start,
                                        IF r.stop > B THEN B ELSE r.stop, r.step)
                    ELSE pads = <<0, 0>> /\ out = r

\* C16: a request whose core and first slice dimensions lie within
\* [0, bound] is read with itself and all pads 0; reading again with the
\* selector a first call has read with gives that selector and all pads 0.
C16_MaterializeIdempotent ==
    \A p \in Procs :
        (fetch.done /\ fetch.p = p) =>
            LET f == fetch
                within == \A d1 \in 1..cfg.nDims :
                             (d1 - 1) \in PadDims =>
                                /\ 0 <= f.req[d1].start
                                /\ f.req[d1].stop <= cfg.data_shape[d1]
                same == /\ f.slice_list = f.req
                        /\ \A d1 \in 1..cfg.nDims : f.pad_list[d1] = <<0, 0>>
            IN  /\ (within => same)
                /\ (f.again => same)

\* the entry (-2:5, 0:4) in the core dimension 1 and the slice dimension 0
\* of an array of bounds (3, 3) was read with (0:3, 0:3), and that selector
\* is read again
C16_Witness ==
    /\ cfg.core_dirs = <<1, 2>> /\ cfg.slice_dirs = <<0>>
    /\ cfg.data_shape = <<3, 3, 3>>
    /\ fetch.done /\ fetch.again /\ fetch.p = 0
    /\ res[0].transfer[fetch.i][1] = slice(0, 4, 1)
    /\ res[0].transfer[fetch.i][2] = slice(-2, 3, 1)
    /\ fetch.req[1] = slice(0, 3, 1)
    /\ fetch.req[2] = slice(0, 3, 1)

\* C17: for an entry [s, e) of the share with 0 <= s < e <= B in a padded
\* dimension with (before, after), reading the padded entry gives the
\* leading pad max(0, before - s), the trailing pad max(0, e + after - B)
\* and the selector [max(0, s - before), min(B, e + after)), so that its
\* length and the two pads sum to (e - s) + before + after.
C17_PadThenMaterialize ==
    \A p \in Procs :
        (fetch.done /\ ~fetch.again /\ fetch.p = p) =>
            \A k \in 1..Len(cfg.padding) :
                LET d1 == cfg.padding[k].ddir + 1
                    before == cfg.padding[k].before
                    after == cfg.padding[k].after
                    B == cfg.data_shape[d1]
                    s == res[p].share[fetch.i][d1].start
                    e == res[p].share[fetch.i][d1].stop
                    out == fetch.slice_list[d1]
                    pads == fetch.pad_list[d1]
                    max0(x) == IF x < 0 THEN 0 ELSE x
                IN  (0 <= s /\ s < e /\ e <= B) =>
                        /\ pads[1] = max0(before - s)
                        /\ pads[2] = max0(e + after - B)
                        /\ out.start = max0(s - before)
                        /\ out.stop = Min(B, e + after)
                        /\ (out.stop - out.start) + pads[1] + pads[2]
                             = (e - s) + before + after

\* the number of frames a selector covers
Frames(e) == Len(arange(e.start, e.stop, e.step))

\* C18: without boundary padding the list that is distributed is the
\* grouped list, except that a last batch of fewer than
\* max_frames_transfer frames along the first slice dimension has its
\* stop moved so that it covers exactly max_frames_transfer frames; its
\* start, its step and its other dimensions are kept, and a last batch
\* that is not short is kept as it is.
C18_LastBatchFullLength ==
    \A p \in Procs :
        (res[p].op = "in" /\ res[p].dist /\ ~cfg.bpad) =>
            LET g == res[p].gsl
                f == res[p].sl
                n == Len(g)
                d1 == cfg.slice_dirs[1] + 1
            IN  /\ Len(f) = n
                /\ \A i \in 1..(n - 1) : f[i] = g[i]
                /\ \A o \in 1..cfg.nDims : o # d1 => f[n][o] = g[n][o]
                /\ f[n][d1].start = g[n][d1].start
                /\ f[n][d1].step = g[n][d1].step
                /\ IF Frames(g[n][d1]) < cfg.mft
                   THEN Frames(f[n][d1]) = cfg.mft
                   ELSE f[n] = g[n]

\* C19: the selector an entry of the transfer list is read with has
\* 0 <= start <= stop <= bound of the array in every dimension.
C19_ReadWithinBounds ==
    \A p \in Procs :
        (fetch.done /\ ~fetch.again /\ fetch.p = p) =>
            \A d1 \in 1..cfg.nDims :
                LET out == fetch.slice_list[d1]
                IN  /\ 0 <= out.start
                    /\ out.start <= out.stop
                    /\ out.stop <= cfg.data_shape[d1]

\* C20: ProcessData._get_dict_out returns one 'unpad' entry per 'process'
\* entry; in a padded dimension with (before, after) the entry selects,
\* of an extent of n + before + after elements, the n positions from
\* before on, and in every other dimension the whole extent.
C20_UnpadStripsPadding ==
    \A p \in Procs :
        (res[p].op = "out" /\ res[p].err = "none") =>
            /\ Len(res[p].unpad) = Len(res[p].process)
            /\ \A i \in 1..Len(res[p].unpad) : \A d1 \in 1..cfg.nDims :
                 \A n \in 1..MaxLen :
                    IF \E k \in 1..Len(cfg.padding) : cfg.padding[k].ddir = d1 - 1
                    THEN LET v == cfg.padding[CHOOSE k \in 1..Len(cfg.padding) :
                                                cfg.padding[k].ddir = d1 - 1]
                         IN  selected(res[p].unpad[i][d1], n + v.before + v.after)
                               = arange(v.before, v.before + n, 1)
                    ELSE selected(res[p].unpad[i][d1], n) = arange(0, n, 1)

----------------------------------------------------------------------------
(* Properties of a run of several processes.                               *)

----------------------------------------------------------------------------
(* Properties of the check of the corrected data.                          *)

\* C22: with upper_bound set, the check raises nothing, every value that
\* was above upper_bound is upper_bound afterwards, and every other value
\* is what the lower-bound step left, whether lower_bound is set or not.
C22_UpperBoundClips ==
    (res.stage = "checked" /\ cfg.parameters.upper_bound.set) =>
        /\ res.err = "none"
        /\ \A i \in 1..Len(res.data) :
             IF res.orig[i] > cfg.parameters.upper_bound.value
             THEN res.data[i] = cfg.parameters.upper_bound.value
             ELSE res.data[i] = res.after_low[i]

\* C23: with lower_bound set to a number, 0 included, after the lower-bound
\* step every value that was below lower_bound is lower_bound and every
\* other value is unchanged.
C23_LowerBoundClips ==
    (res.stage = "checked" /\ cfg.parameters.lower_bound.set) =>
        \A i \in 1..Len(res.after_low) :
            res.after_low[i]
              = (IF res.orig[i] < cfg.parameters.lower_bound.value
                 THEN cfg.parameters.lower_bound.value
                 ELSE res.orig[i])

----------------------------------------------------------------------------
(* Properties of the process lists.                                        *)

\* ceil(a / b)
CeilDiv(a, b) == (a + b - 1) \div b

\* the single frames ProcessData groups for its 'process' list
ProcessFrames == ProcessData_local_single_slice_list(cfg, get_shape_transfer(cfg))

\* C24 as stated: the process-side grouping of K single frames with the
\* limit M gives ceil(K/M) batches, for any number of slice dimensions:
\* so the 'current' list built from the K frames of the single slice list,
\* and the 'process' list built from the frames of a transferred block.
C24_ProcessBatchCount ==
    \A p \in Procs :
        (res[p].op # "none" /\ res[p].err = "none" /\ cfg.slice_dirs # <<>>) =>
            /\ res[p].op = "in" => Len(res[p].current) = CeilDiv(Len(res[p].ssl), cfg.mfp)
            /\ Len(res[p].process) = CeilDiv(Len(ProcessFrames), cfg.mfp)

\* C24 amended: the K frames are first cut into banks of n0 consecutive
\* frames, n0 the length of the first slice dimension, and every bank is
\* grouped by M on its own: floor(K/n0) * ceil(n0/M) + ceil((K mod n0)/M)
\* batches, which is ceil(K/M) when K <= n0 or M divides n0.  A batch
\* folds at most M consecutive frames of one bank, only the last batch of
\* a bank fewer: it is the first of them with, in the first slice
\* dimension, its start, the stop of the last of them, and step 1.
C24_ProcessBatchesPerBank ==
    \A p \in Procs :
        (res[p].op # "none" /\ res[p].err = "none" /\ cfg.slice_dirs # <<>>) =>
            LET M == cfg.mfp
                d1 == cfg.slice_dirs[1] + 1
                n0 == cfg.shape[d1]
                perBank == CeilDiv(n0, M)
                count(K) == (K \div n0) * perBank + CeilDiv(K % n0, M)
                first(j) == ((j - 1) \div perBank) * n0 + ((j - 1) % perBank) * M + 1
                last(j, K) == Min(Min(first(j) + M - 1,
                                      (((j - 1) \div perBank) + 1) * n0), K)
                folded(frames, j) ==
                    [frames[first(j)] EXCEPT ![d1] =
                        slice(frames[first(j)][d1].start,
                              frames[last(j, Len(frames))][d1].stop, 1)]
                grouped(frames) == [j \in 1..count(Len(frames)) |-> folded(frames, j)]
            IN  /\ res[p].op = "in" =>
                     /\ res[p].current = grouped(res[p].ssl)
                     /\ Len(res[p].process) = count(Len(ProcessFrames))
                /\ res[p].op = "out" => res[p].process = grouped(ProcessFrames)
                /\ (Len(res[p].ssl) <= n0 \/ n0 % M = 0) =>
                     count(Len(res[p].ssl)) = CeilDiv(Len(res[p].ssl), M)

\* six frames of slice dimensions of lengths 3 and 2, grouped by 2: two
\* banks of two batches each
C24_Witness ==
    /\ cfg.slice_dirs = <<0, 1>> /\ cfg.shape[1] = MaxLen /\ cfg.shape[2] = 2
    /\ cfg.mfp = 2 /\ cfg.steps[1] = 1
    /\ res[0].op = "in" /\ res[0].err = "none"
    /\ Len(res[0].ssl) = 2 * MaxLen
    /\ Len(res[0].current) = 2 * CeilDiv(MaxLen, 2)
    /\ res[0].current[2][1] = slice(2 * ((MaxLen - 1) \div 2), MaxLen, 1)

\* C25: building the 'process' list of an input, whenever the pattern has
\* a slice dimension (axis 0 included), the final batch covers exactly
\* max_frames_process frames along the first slice dimension once the
\* padding added to that dimension is taken off.
C25_ProcessLastBatchFullLength ==
    \A p \in Procs :
        (/\ res[p].op = "in" /\ res[p].err = "none"
         /\ cfg.slice_dirs # <<>> /\ res[p].process # <<>>) =>
            LET d == cfg.slice_dirs[1]
                e == res[p].process[Len(res[p].process)][d + 1]
                padded == \E k \in 1..Len(cfg.padding) : cfg.padding[k].ddir = d
                value == cfg.padding[CHOOSE k \in 1..Len(cfg.padding) : cfg.padding[k].ddir = d]
                pad == IF padded THEN value.before + value.after ELSE 0
            IN  (e.stop - e.start) - pad = cfg.mfp

----------------------------------------------------------------------------
(* Properties of the reconstruction base class.                            *)

\* C26: after base_process_frames, get_cors() holds one centre per index
\* of the selector of the current slice along the main dimension, the
\* centres of the indices inside the array followed, for the indices past
\* its end, by the first centre.
C26_OneCentrePerFrame ==
    res.stage = "frames" =>
        LET idx == arange(res.dim_sl.start, res.dim_sl.stop, res.dim_sl.step)
        IN  /\ Len(get_cors(res)) = Len(idx)
            /\ \A i \in 1..Len(idx) :
                 get_cors(res)[i] = IF idx[i] < Len(res.cor)
                                    THEN res.cor[idx[i] + 1] ELSE res.cor[1]

----------------------------------------------------------------------------
(* Properties of the loaders.                                              *)

\* a dimension counted from the end, resolved
Resolved(d, nDims) == IF d < 0 THEN d + nDims ELSE d

\* C27: in every pattern a loader has registered, with negative
\* dimensions resolved, no dimension is named twice, no dimension is both
\* core and slice, and the core and slice dimensions together are the
\* dimensions of the data.
C27_PatternsPartitionDims ==
    (cfg.loader \in {"NxtomoLoader", "BaseI18MultiModalLoader"} /\ res.stage = "patterns") =>
        \A k \in 1..Len(res.patterns) :
            LET pat == res.patterns[k]
                core == {Resolved(pat.core_dir[i], res.nDims) : i \in 1..Len(pat.core_dir)}
                slices == {Resolved(pat.slice_dir[i], res.nDims) : i \in 1..Len(pat.slice_dir)}
            IN  /\ Cardinality(core) = Len(pat.core_dir)
                /\ Cardinality(slices) = Len(pat.slice_dir)
                /\ core \cap slices = {}
                /\ core \cup slices = 0..(res.nDims - 1)

\* a diffraction tomography map of four axes: projection, sinogram and
\* diffraction patterns are registered
C27_Witness ==
    /\ cfg.loader = "BaseI18MultiModalLoader" /\ cfg.ltype = "xrd"
    /\ cfg.rank = 4 /\ cfg.parameters.scan_pattern = <<"rotation", "x">>
    /\ res.stage = "patterns" /\ res.err = "none"
    /\ res.patterns = <<[name |-> "PROJECTION", core_dir |-> <<1>>, slice_dir |-> <<0, 2, 3>>],
                        [name |-> "SINOGRAM", core_dir |-> <<0, 1>>, slice_dir |-> <<2, 3>>],
                        [name |-> "DIFFRACTION", core_dir |-> <<-2, -1>>, slice_dir |-> <<0, 1>>]>>

----------------------------------------------------------------------------
(* Properties of the GPU driver.                                           *)

\* C28: a process whose entry of the process list does not contain "GPU"
\* makes none of the calls; a process whose entry does makes pre_process,
\* transport.process, exp.barrier, post_process, clean_up in that order
\* and each at most once, post_process only after the barrier has been
\* entered, and has made each exactly once when run_plugin returns.
C28_GpuOnlyInOrder ==
    (cfg.plugin = "GpuPlugin") =>
        \A p \in Procs :
            IF InGPU(cfg.processes[p + 1])
            THEN /\ res[p].calls = SubSeq(PluginCalls, 1, Len(res[p].calls))
                 /\ res[p].pc = "done" => res[p].calls = PluginCalls
                 /\ (\E i \in 1..Len(res[p].calls) : res[p].calls[i] = "post_process")
                       => res[p].entered
            ELSE res[p].calls = <<>> /\ ~res[p].entered

\* two GPU processes have both returned from run_plugin after the five
\* calls
C28_Witness ==
    /\ cfg.plugin = "GpuPlugin"
    /\ cfg.processes = <<"GPU0", "GPU0">>
    /\ \A p \in Procs : res[p].pc = "done" /\ res[p].calls = PluginCalls

\* C29: a process that has entered the barrier is eventually released
\* and reaches its post_process call, whatever the process list.
C29_BarrierReleases ==
    \A p \in 0..(MaxProcs - 1) :
        (cfg.plugin = "GpuPlugin" /\ p \in Procs /\ res[p].pc = "waiting")
            ~> (p \in Procs /\ res[p].pc \in {"post", "clean", "done"})

\* C30: once every process has either skipped the plugin or gone through
\* transport.process, the frames taken are all the frames 0 .. K-1.
C30_EveryFrameProcessed ==
    (/\ cfg.plugin = "GpuPlugin"
     /\ \A p \in Procs : res[p].pc \notin {"start", "pre", "process"}) =>
        UNION {Elems(res[p].frames) : p \in Procs} = 0..(cfg.nFrames - 1)

====
